---- MODULE Spec2Model ----
(***************************************************************************)
(* Twist MCP server: the request gateway (src/src/api.py), the tool        *)
(* handlers (src/src/inbox.py, src/src/threads.py) and the server start-up *)
(* (src/main.py), as a state machine.                                      *)
(*                                                                         *)
(* Python values are written as the strings str() gives them ("7",         *)
(* "False", "[]", "{'id': 1}"); None is the string "None".  A dict is a    *)
(* function from its keys to its values.                                   *)
(***************************************************************************)
EXTENDS Integers, Sequences, FiniteSets, TLC

VARIABLES
    environ,           \* os.environ: the two variables the program reads
    phase,             \* "init" | "running" | "failed" | "stopped"
    lifespan_context,  \* what app_lifespan yielded (TwistContext), or NoContext
    registered,        \* the handlers registered with the FastMCP instance
    pending,           \* the invocation waiting for its handler, or NoCall
    last,              \* what the handler that just ran did and returned, or NoRun
    http_requests,     \* outbound HTTP requests issued by the process so far
    startup_environ,   \* os.environ as it was when app_lifespan started
    inflight           \* the invocations that run concurrently, by arrival number

vars ==
    <<environ, phase, lifespan_context, registered, pending, last, http_requests,
      startup_environ, inflight>>

-----------------------------------------------------------------------------
(* Bounds *)

\* At most this many optional arguments are supplied in one invocation.
MaxSupplied == 1

\* The process issues at most this many HTTP requests in one behaviour.
MaxHttp == 2

\* At most this many invocations run concurrently.
MaxConcurrent == 2

-----------------------------------------------------------------------------
(* Python values *)

None == "None"

\* The values `not v` is true of: None, 0, False, "", [], {}.
Falsy == {None, "0", "False", "", "[]", "{}"}

Not(v) == v \in Falsy

\* The two values an argument of each declared type is drawn from: a falsy
\* one and a truthy one.
Vals(ty) ==
    CASE ty = "int"  -> <<"0", "7">>
      [] ty = "bool" -> <<"False", "True">>
      [] ty = "str"  -> <<"", "x">>
      [] ty = "list" -> <<"[]", "[1]">>

\* type(v).__name__ of a decoded JSON value
PyType(v) ==
    CASE v = None -> "NoneType"
      [] v \in {"{}", "{'id': 1}"} -> "dict"
      [] v \in {"[]", "[{'id': 1}]"} -> "list"
      [] OTHER -> "int"

\* The outcome of evaluating an expression: a value, or a raised exception.
Return(v) == [raised |-> FALSE, value |-> v, type |-> "", msg |-> ""]

Raise(type, msg) == [raised |-> TRUE, value |-> None, type |-> type, msg |-> msg]

\* The classes `except requests.exceptions.RequestException` catches.
RequestException == {"ConnectionError", "HTTPError", "JSONDecodeError"}

\* The classes `except Exception` catches: every exception the program raises.
Exception ==
    RequestException \cup {"ValueError", "TypeError", "AttributeError", "KeyError"}

\* len(v)
len(v) ==
    IF PyType(v) \in {"dict", "list"}
    THEN Return(IF Not(v) THEN "0" ELSE "1")
    ELSE Raise("TypeError", "object of type '" \o PyType(v) \o "' has no len()")

\* v.get('id')
dict_get_id(v) ==
    IF PyType(v) = "dict"
    THEN Return(IF v = "{'id': 1}" THEN "1" ELSE None)
    ELSE Raise("AttributeError",
               "'" \o PyType(v) \o "' object has no attribute 'get'")

\* os.getenv(name)
getenv(env, name) == env[name]

-----------------------------------------------------------------------------
(* The network: what one HTTP exchange can come to *)

Statuses == {100, 200, 304, 404, 500}

\* Response bodies: empty, and the JSON texts null, {}, [], an object, an
\* array, a number.
Bodies == {"", "null", "{}", "[]", "{\"id\": 1}", "[{\"id\": 1}]", "5"}

Outcomes ==
    {[kind |-> "transport", status |-> 0, body |-> ""]}
    \cup {[kind |-> "response", status |-> s, body |-> b] : s \in Statuses, b \in Bodies}

\* response.json()
json(body) ==
    CASE body = "null" -> Return(None)
      [] body = "{}" -> Return("{}")
      [] body = "[]" -> Return("[]")
      [] body = "{\"id\": 1}" -> Return("{'id': 1}")
      [] body = "[{\"id\": 1}]" -> Return("[{'id': 1}]")
      [] body = "5" -> Return("5")
      [] OTHER -> Raise("JSONDecodeError", "Expecting value: line 1 column 1 (char 0)")

raise_for_status_5xx_only(status) ==
    IF 500 <= status /\ status < 600
    THEN Raise("HTTPError", ToString(status) \o " Server Error")
    ELSE Return(None)

\* response.raise_for_status(): "Raise an exception for 4XX/5XX responses"
raise_for_status(status) ==
    IF 400 <= status /\ status < 500
    THEN Raise("HTTPError", ToString(status) \o " Client Error")
    ELSE IF 500 <= status /\ status < 600
    THEN Raise("HTTPError", ToString(status) \o " Server Error")
    ELSE Return(None)

-----------------------------------------------------------------------------
(* src/src/api.py *)

get_api_client_unchecked(env) == Return(getenv(env, "TWIST_API_TOKEN"))

get_api_client(env) ==
    LET TWIST_API_TOKEN == getenv(env, "TWIST_API_TOKEN")
    IN  IF Not(TWIST_API_TOKEN)
        THEN Raise("ValueError", "TWIST_API_TOKEN environment variable is required")
        ELSE Return(TWIST_API_TOKEN)

base_url == "https://api.twist.com/api/v3/"

NoParams == <<>>

\* requests.get(url, params=params, headers=headers)
HttpGet(url, params, headers) ==
    [verb |-> "GET", url |-> url, query |-> params, data |-> NoParams,
     headers |-> headers]

\* requests.post(url, data=params, headers=headers)
HttpPost(url, params, headers) ==
    [verb |-> "POST", url |-> url, query |-> NoParams, data |-> params,
     headers |-> headers]

exchange_retry(req, net) ==
    IF net.kind = "transport"
    THEN [ret |-> Raise("ConnectionError", "Connection aborted"), sent |-> <<req, req>>]
    ELSE LET status == raise_for_status(net.status)
         IN  IF status.raised
             THEN [ret |-> status, sent |-> <<req, req>>]
             ELSE [ret |-> json(net.body), sent |-> <<req>>]

\* One request handed to the HTTP client, then raise_for_status() and
\* json(); a RequestException is logged and raised again.
exchange(req, net) ==
    IF net.kind = "transport"
    THEN [ret |-> Raise("ConnectionError", "Connection aborted"), sent |-> <<req>>]
    ELSE LET status == raise_for_status(net.status)
         IN  IF status.raised
             THEN [ret |-> status, sent |-> <<req>>]
             ELSE [ret |-> json(net.body), sent |-> <<req>>]

unsupported_as_get(url, params, headers, method, net) ==
    exchange(HttpGet(url, params, headers), net)

\* the else branch of the method dispatch
unsupported(url, params, headers, method, net) ==
    [ret |-> Raise("ValueError", "Unsupported HTTP method: " \o method), sent |-> <<>>]

twist_request(endpoint, params, token, method, env, net) ==
    LET tk == IF token = None THEN get_api_client(env) ELSE Return(token)
    IN  IF tk.raised
        THEN [ret |-> tk, sent |-> <<>>]
        ELSE LET headers == [Authorization |-> "Bearer " \o tk.value]
                 url == base_url \o endpoint
             IN  IF method = "GET"
                 THEN exchange(HttpGet(url, params, headers), net)
                 ELSE IF method = "POST"
                 THEN exchange(HttpPost(url, params, headers), net)
                 ELSE unsupported(url, params, headers, method, net)

-----------------------------------------------------------------------------
(* What a handler did: the gateway calls it made, the HTTP requests those   *)
(* issued, and what it returned (or raised).                                *)

GatewayCall(endpoint, params, token, method) ==
    [endpoint |-> endpoint, params |-> params, token |-> token, method |-> method]

\* The handler returned before it called the gateway.
Local(result) == [calls |-> <<>>, sent |-> <<>>, result |-> result]

\* The handler called the gateway once (g is what twist_request did).
Called(endpoint, params, token, method, g, result) ==
    [calls |-> <<GatewayCall(endpoint, params, token, method)>>,
     sent |-> g.sent, result |-> result]

catch_nothing(prefix, r) == r

\* try: ... except Exception as error: return f"{prefix}: {str(error)}"
catch(prefix, r) ==
    IF r.raised /\ r.type \in Exception
    THEN Return(prefix \o ": " \o r.msg)
    ELSE r

locals_params_truthy(all_params) ==
    [k \in {k \in DOMAIN all_params : ~Not(all_params[k])} |-> all_params[k]]

\* {k: v for k, v in all_params.items() if k != 'ctx' and v is not None}
\* (all_params holds the arguments other than ctx)
locals_params(all_params) ==
    [k \in {k \in DOMAIN all_params : all_params[k] # None} |-> all_params[k]]

set_if_truthy(params, a, k) ==
    IF ~Not(a[k]) THEN (k :> a[k]) @@ params ELSE params

\* if <k> is not None: params["<k>"] = <k>
set_if_not_none(params, a, k) ==
    IF a[k] # None THEN (k :> a[k]) @@ params ELSE params

missing_workspace_ignored(workspace_id) == FALSE

\* if not workspace_id: return "Error: TWIST_WORKSPACE_ID ... is required"
missing_workspace(workspace_id) == Not(workspace_id)

WorkspaceRequired == "Error: TWIST_WORKSPACE_ID environment variable is required"

-----------------------------------------------------------------------------
(* src/src/inbox.py *)

twist_inbox_get(ctx, a, env, net) ==
    LET token == ctx.twist_token
        workspace_id == getenv(env, "TWIST_WORKSPACE_ID")
    IN  IF missing_workspace(workspace_id)
        THEN Local(Return(WorkspaceRequired))
        ELSE LET p0 == ("workspace_id" :> workspace_id)
                 p1 == set_if_not_none(p0, a, "limit")
                 p2 == set_if_not_none(p1, a, "newer_than_ts")
                 p3 == set_if_not_none(p2, a, "older_than_ts")
                 p4 == set_if_not_none(p3, a, "archive_filter")
                 p5 == set_if_not_none(p4, a, "order_by")
                 params == set_if_not_none(p5, a, "exclude_thread_ids")
                 g == twist_request("inbox/get", params, token, "GET", env, net)
                 inbox_data == g.ret.value
                 body == IF g.ret.raised THEN g.ret
                         ELSE IF Not(inbox_data) THEN Return("No inbox threads found")
                         ELSE IF len(inbox_data).raised THEN len(inbox_data)
                         ELSE Return(inbox_data)
             IN  Called("inbox/get", params, token, "GET", g,
                        catch("Error getting inbox", body))

twist_inbox_archive_all(ctx, a, env, net) ==
    LET token == ctx.twist_token
        workspace_id == getenv(env, "TWIST_WORKSPACE_ID")
    IN  IF missing_workspace(workspace_id)
        THEN Local(Return(WorkspaceRequired))
        ELSE LET p0 == ("workspace_id" :> workspace_id)
                 params == set_if_not_none(p0, a, "older_than_ts")
                 g == twist_request("inbox/archive_all", params, token, "POST", env, net)
                 body == IF g.ret.raised THEN g.ret
                         ELSE Return("Successfully archived all inbox threads")
             IN  Called("inbox/archive_all", params, token, "POST", g,
                        catch("Error archiving all inbox threads", body))

twist_inbox_archive(ctx, a, env, net) ==
    LET token == ctx.twist_token
        params == ("id" :> a.id)
        g == twist_request("inbox/archive", params, token, "POST", env, net)
        body == IF g.ret.raised THEN g.ret
                ELSE Return("Successfully archived thread with ID: " \o a.id)
    IN  Called("inbox/archive", params, token, "POST", g,
               catch("Error archiving thread", body))

twist_inbox_unarchive(ctx, a, env, net) ==
    LET token == ctx.twist_token
        params == ("id" :> a.id)
        g == twist_request("inbox/unarchive", params, token, "POST", env, net)
        body == IF g.ret.raised THEN g.ret
                ELSE Return("Successfully unarchived thread with ID: " \o a.id)
    IN  Called("inbox/unarchive", params, token, "POST", g,
               catch("Error unarchiving thread", body))

twist_inbox_mark_all_read(ctx, a, env, net) ==
    LET token == ctx.twist_token
        workspace_id == getenv(env, "TWIST_WORKSPACE_ID")
    IN  IF missing_workspace(workspace_id)
        THEN Local(Return(WorkspaceRequired))
        ELSE LET params == ("workspace_id" :> workspace_id)
                 g == twist_request("inbox/mark_all_read", params, token, "POST", env, net)
                 body == IF g.ret.raised THEN g.ret
                         ELSE Return("Successfully marked all inbox threads as read")
             IN  Called("inbox/mark_all_read", params, token, "POST", g,
                        catch("Error marking all inbox threads as read", body))

twist_inbox_get_count(ctx, a, env, net) ==
    LET token == ctx.twist_token
        workspace_id == getenv(env, "TWIST_WORKSPACE_ID")
    IN  IF missing_workspace(workspace_id)
        THEN Local(Return(WorkspaceRequired))
        ELSE LET params == ("workspace_id" :> workspace_id)
                 g == twist_request("inbox/get_count", params, token, "GET", env, net)
                 count_data == g.ret.value
                 body == IF g.ret.raised THEN g.ret
                         ELSE IF Not(count_data) THEN Return("Failed to get inbox count")
                         ELSE Return(count_data)
             IN  Called("inbox/get_count", params, token, "GET", g,
                        catch("Error getting inbox count", body))

-----------------------------------------------------------------------------
(* src/src/threads.py *)

twist_threads_getone(ctx, a, env, net) ==
    LET token == ctx.twist_token
        params == locals_params(a)
        g == twist_request("threads/getone", params, token, "GET", env, net)
        thread_data == g.ret.value
        body == IF g.ret.raised THEN g.ret ELSE Return(thread_data)
    IN  Called("threads/getone", params, token, "GET", g,
               catch("Error getting thread", body))

twist_threads_get(ctx, a, env, net) ==
    LET token == ctx.twist_token
        params == locals_params(a)
        g == twist_request("threads/get", params, token, "GET", env, net)
        threads_data == g.ret.value
        body == IF g.ret.raised THEN g.ret
                ELSE IF Not(threads_data) THEN Return("No threads found")
                ELSE IF len(threads_data).raised THEN len(threads_data)
                ELSE Return(threads_data)
    IN  Called("threads/get", params, token, "GET", g,
               catch("Error getting threads", body))

twist_threads_add(ctx, a, env, net) ==
    LET token == ctx.twist_token
        params == locals_params(a)
        g == twist_request("threads/add", params, token, "POST", env, net)
        thread_data == g.ret.value
        body == IF g.ret.raised THEN g.ret
                ELSE IF dict_get_id(thread_data).raised THEN dict_get_id(thread_data)
                ELSE Return(thread_data)
    IN  Called("threads/add", params, token, "POST", g,
               catch("Error adding thread", body))

twist_threads_update(ctx, a, env, net) ==
    LET token == ctx.twist_token
        params == locals_params(a)
        g == twist_request("threads/update", params, token, "POST", env, net)
        thread_data == g.ret.value
        body == IF g.ret.raised THEN g.ret ELSE Return(thread_data)
    IN  Called("threads/update", params, token, "POST", g,
               catch("Error updating thread", body))

twist_threads_remove(ctx, a, env, net) ==
    LET token == ctx.twist_token
        params == locals_params(a)
        g == twist_request("threads/remove", params, token, "POST", env, net)
        body == IF g.ret.raised THEN g.ret
                ELSE Return("Successfully removed thread with ID: " \o a.id)
    IN  Called("threads/remove", params, token, "POST", g,
               catch("Error removing thread", body))

twist_threads_star(ctx, a, env, net) ==
    LET token == ctx.twist_token
        params == locals_params(a)
        g == twist_request("threads/star", params, token, "POST", env, net)
        body == IF g.ret.raised THEN g.ret
                ELSE Return("Successfully starred thread with ID: " \o a.id)
    IN  Called("threads/star", params, token, "POST", g,
               catch("Error starring thread", body))

twist_threads_unstar(ctx, a, env, net) ==
    LET token == ctx.twist_token
        params == locals_params(a)
        g == twist_request("threads/unstar", params, token, "POST", env, net)
        body == IF g.ret.raised THEN g.ret
                ELSE Return("Successfully unstarred thread with ID: " \o a.id)
    IN  Called("threads/unstar", params, token, "POST", g,
               catch("Error unstarring thread", body))

twist_threads_pin(ctx, a, env, net) ==
    LET token == ctx.twist_token
        params == locals_params(a)
        g == twist_request("threads/pin", params, token, "POST", env, net)
        body == IF g.ret.raised THEN g.ret
                ELSE Return("Successfully pinned thread with ID: " \o a.id)
    IN  Called("threads/pin", params, token, "POST", g,
               catch("Error pinning thread", body))

twist_threads_unpin(ctx, a, env, net) ==
    LET token == ctx.twist_token
        params == locals_params(a)
        g == twist_request("threads/unpin", params, token, "POST", env, net)
        body == IF g.ret.raised THEN g.ret
                ELSE Return("Successfully unpinned thread with ID: " \o a.id)
    IN  Called("threads/unpin", params, token, "POST", g,
               catch("Error unpinning thread", body))

twist_threads_move_to_channel_raw(ctx, a, env, net) ==
    LET token == ctx.twist_token
        params == locals_params(a)
        g == twist_request("threads/move_to_channel", params, token, "POST", env, net)
        body == IF g.ret.raised THEN g.ret ELSE Return(g.ret.value)
    IN  Called("threads/move_to_channel", params, token, "POST", g,
               catch("Error moving thread", body))

twist_threads_move_to_channel(ctx, a, env, net) ==
    LET token == ctx.twist_token
        params == locals_params(a)
        g == twist_request("threads/move_to_channel", params, token, "POST", env, net)
        body == IF g.ret.raised THEN g.ret
                ELSE Return("Successfully moved thread with ID: " \o a.id
                            \o " to channel: " \o a.to_channel)
    IN  Called("threads/move_to_channel", params, token, "POST", g,
               catch("Error moving thread", body))

twist_threads_get_unread(ctx, a, env, net) ==
    LET token == ctx.twist_token
        workspace_id == getenv(env, "TWIST_WORKSPACE_ID")
    IN  IF missing_workspace(workspace_id)
        THEN Local(Return(WorkspaceRequired))
        ELSE LET params == ("workspace_id" :> workspace_id)
                 g == twist_request("threads/get_unread", params, token, "GET", env, net)
                 unread_data == g.ret.value
                 body == IF g.ret.raised THEN g.ret
                         ELSE IF Not(unread_data) THEN Return("No unread threads found")
                         ELSE IF len(unread_data).raised THEN len(unread_data)
                         ELSE Return(unread_data)
             IN  Called("threads/get_unread", params, token, "GET", g,
                        catch("Error getting unread threads", body))

twist_threads_mark_read(ctx, a, env, net) ==
    LET token == ctx.twist_token
        params == locals_params(a)
        g == twist_request("threads/mark_read", params, token, "POST", env, net)
        body == IF g.ret.raised THEN g.ret
                ELSE Return("Successfully marked thread with ID: " \o a.id
                            \o " as read up to comment index: " \o a.obj_index)
    IN  Called("threads/mark_read", params, token, "POST", g,
               catch("Error marking thread as read", body))

twist_threads_mark_unread(ctx, a, env, net) ==
    LET token == ctx.twist_token
        params == locals_params(a)
        g == twist_request("threads/mark_unread", params, token, "POST", env, net)
        body == IF g.ret.raised THEN g.ret
                ELSE Return("Successfully marked thread with ID: " \o a.id
                            \o " as unread from comment index: " \o a.obj_index)
    IN  Called("threads/mark_unread", params, token, "POST", g,
               catch("Error marking thread as unread", body))

twist_threads_mark_unread_for_others(ctx, a, env, net) ==
    LET token == ctx.twist_token
        params == locals_params(a)
        g == twist_request("threads/mark_unread_for_others", params, token, "POST", env, net)
        body == IF g.ret.raised THEN g.ret
                ELSE Return("Successfully marked thread with ID: " \o a.id
                            \o " as unread for others from comment index: " \o a.obj_index)
    IN  Called("threads/mark_unread_for_others", params, token, "POST", g,
               catch("Error marking thread as unread for others", body))

\* params['channel_id'] if "channel_id" in params else params['workspace_id']
mark_all_read_target(params) ==
    IF "channel_id" \in DOMAIN params
    THEN Return("channel ID: " \o params["channel_id"])
    ELSE IF "workspace_id" \in DOMAIN params
    THEN Return("workspace ID: " \o params["workspace_id"])
    ELSE Raise("KeyError", "'workspace_id'")

\* if not workspace_id and not channel_id:
mark_all_read_needs_default(workspace_id, channel_id) ==
    Not(workspace_id) /\ Not(channel_id)

mark_all_read_default_unused(env) == None

\* workspace_id = os.getenv("TWIST_WORKSPACE_ID")
mark_all_read_default(env) == getenv(env, "TWIST_WORKSPACE_ID")

twist_threads_mark_all_read(ctx, a, env, net) ==
    LET token == ctx.twist_token
        params0 == locals_params(a)
        fallback == mark_all_read_needs_default(a.workspace_id, a.channel_id)
        workspace_id == IF fallback THEN mark_all_read_default(env) ELSE a.workspace_id
    IN  IF fallback /\ Not(workspace_id)
        THEN Local(Return("Error: Either workspace_id or channel_id is required"))
        ELSE LET params == IF fallback
                           THEN ("workspace_id" :> workspace_id) @@ params0
                           ELSE params0
                 target == mark_all_read_target(params)
                 g == IF target.raised
                      THEN [ret |-> target, sent |-> <<>>]
                      ELSE twist_request("threads/mark_all_read", params, token,
                                         "POST", env, net)
                 body == IF g.ret.raised THEN g.ret
                         ELSE Return("Successfully marked all threads in "
                                     \o target.value \o " as read")
                 result == catch("Error marking all threads as read", body)
             IN  IF target.raised
                 THEN Local(result)
                 ELSE Called("threads/mark_all_read", params, token, "POST", g, result)

twist_threads_clear_unread(ctx, a, env, net) ==
    LET token == ctx.twist_token
        workspace_id == getenv(env, "TWIST_WORKSPACE_ID")
    IN  IF missing_workspace(workspace_id)
        THEN Local(Return(WorkspaceRequired))
        ELSE LET params == ("workspace_id" :> workspace_id)
                 g == twist_request("threads/clear_unread", params, token, "POST", env, net)
                 body == IF g.ret.raised THEN g.ret
                         ELSE Return("Successfully cleared unread threads")
             IN  Called("threads/clear_unread", params, token, "POST", g,
                        catch("Error clearing unread threads", body))

twist_threads_mute(ctx, a, env, net) ==
    LET token == ctx.twist_token
        params == locals_params(a)
        g == twist_request("threads/mute", params, token, "POST", env, net)
        thread_data == g.ret.value
        body == IF g.ret.raised THEN g.ret ELSE Return(thread_data)
    IN  Called("threads/mute", params, token, "POST", g,
               catch("Error muting thread", body))

twist_threads_unmute(ctx, a, env, net) ==
    LET token == ctx.twist_token
        params == locals_params(a)
        g == twist_request("threads/unmute", params, token, "POST", env, net)
        thread_data == g.ret.value
        body == IF g.ret.raised THEN g.ret ELSE Return(thread_data)
    IN  Called("threads/unmute", params, token, "POST", g,
               catch("Error unmuting thread", body))

-----------------------------------------------------------------------------
(* The tool catalog: the handlers the two modules define *)

InboxTools ==
    {"twist_inbox_get", "twist_inbox_archive_all", "twist_inbox_archive",
     "twist_inbox_unarchive", "twist_inbox_mark_all_read", "twist_inbox_get_count"}

ThreadTools ==
    {"twist_threads_getone", "twist_threads_get", "twist_threads_add",
     "twist_threads_update", "twist_threads_remove", "twist_threads_star",
     "twist_threads_unstar", "twist_threads_pin", "twist_threads_unpin",
     "twist_threads_move_to_channel", "twist_threads_get_unread",
     "twist_threads_mark_read", "twist_threads_mark_unread",
     "twist_threads_mark_unread_for_others", "twist_threads_mark_all_read",
     "twist_threads_clear_unread", "twist_threads_mute", "twist_threads_unmute"}

Catalog == InboxTools \cup ThreadTools

NoArgs == <<>>

IdOnly == [id |-> "int"]

IdAndIndex == [id |-> "int", obj_index |-> "int"]

\* The required and the optional (default None) parameters each handler
\* declares after ctx, with their annotated types.
Signature(t) ==
    CASE t = "twist_inbox_get" ->
            [req |-> NoArgs,
             opt |-> [limit |-> "int", newer_than_ts |-> "int", older_than_ts |-> "int",
                      archive_filter |-> "str", order_by |-> "str",
                      exclude_thread_ids |-> "list"]]
      [] t = "twist_inbox_archive_all" ->
            [req |-> NoArgs, opt |-> [older_than_ts |-> "int"]]
      [] t = "twist_threads_get" ->
            [req |-> [channel_id |-> "int"],
             opt |-> [as_ids |-> "bool", filter_by |-> "str", limit |-> "int",
                      newer_than_ts |-> "int", older_than_ts |-> "int",
                      before_id |-> "int", after_id |-> "int", workspace_id |-> "int",
                      is_pinned |-> "bool", is_starred |-> "bool", order_by |-> "str",
                      exclude_thread_ids |-> "list"]]
      [] t = "twist_threads_add" ->
            [req |-> [channel_id |-> "int", title |-> "str", content |-> "str"],
             opt |-> [actions |-> "list", attachments |-> "list",
                      direct_group_mentions |-> "list", direct_mentions |-> "list",
                      groups |-> "list", recipients |-> "list",
                      send_as_integration |-> "bool", temp_id |-> "int"]]
      [] t = "twist_threads_update" ->
            [req |-> IdOnly,
             opt |-> [actions |-> "list", attachments |-> "list", content |-> "str",
                      direct_group_mentions |-> "list", direct_mentions |-> "list",
                      title |-> "str"]]
      [] t = "twist_threads_move_to_channel" ->
            [req |-> [id |-> "int", to_channel |-> "int"], opt |-> NoArgs]
      [] t \in {"twist_threads_mark_read", "twist_threads_mark_unread",
                "twist_threads_mark_unread_for_others"} ->
            [req |-> IdAndIndex, opt |-> NoArgs]
      [] t = "twist_threads_mute" ->
            [req |-> [id |-> "int", minutes |-> "int"], opt |-> NoArgs]
      [] t = "twist_threads_mark_all_read" ->
            [req |-> NoArgs, opt |-> [workspace_id |-> "int", channel_id |-> "int"]]
      [] t \in {"twist_inbox_mark_all_read", "twist_inbox_get_count",
                "twist_threads_get_unread", "twist_threads_clear_unread"} ->
            [req |-> NoArgs, opt |-> NoArgs]
      [] t \in {"twist_inbox_archive", "twist_inbox_unarchive", "twist_threads_getone",
                "twist_threads_remove", "twist_threads_star", "twist_threads_unstar",
                "twist_threads_pin", "twist_threads_unpin", "twist_threads_unmute"} ->
            [req |-> IdOnly, opt |-> NoArgs]

Required(t) == DOMAIN Signature(t).req

Optional(t) == DOMAIN Signature(t).opt

TypeOf(t, k) == IF k \in Required(t) THEN Signature(t).req[k] ELSE Signature(t).opt[k]

\* The optional arguments one invocation may supply together.  The two of
\* threads.mark_all_read are read together by the handler, so every
\* combination of them is drawn.
Supplied(t) ==
    IF t = "twist_threads_mark_all_read"
    THEN SUBSET Optional(t)
    ELSE {S \in SUBSET Optional(t) : Cardinality(S) <= MaxSupplied}

\* The argument records a caller can pass to handler t: every required
\* argument has a value, an optional one has a value or is None (not given).
ArgSets(t) ==
    UNION {
        {[k \in Required(t) \cup Optional(t) |->
              IF k \in Required(t) \cup S THEN Vals(TypeOf(t, k))[b[k]] ELSE None]
         : b \in [Required(t) \cup S -> {1, 2}]}
        : S \in Supplied(t)}

-----------------------------------------------------------------------------
(* The state machine *)

NoContext == [twist_token |-> None]

NoCall == [tool |-> "", args |-> NoArgs, via |-> ""]

NoNet == [kind |-> "none", status |-> 0, body |-> ""]

NoRun ==
    [tool |-> "", args |-> NoArgs, calls |-> <<>>, sent |-> <<>>, net |-> NoNet,
     result |-> Return(None)]

\* An invocation that has not arrived yet.
NotCalled ==
    [pc |-> "idle", tool |-> "", args |-> NoArgs, calls |-> <<>>, sent |-> <<>>,
     net |-> NoNet, result |-> Return(None)]

\* mcp = FastMCP(...); mcp.tool()(twist_inbox_get)
RegisteredAtImport == {"twist_inbox_get"}

Init ==
    /\ environ \in {[TWIST_API_TOKEN |-> t, TWIST_WORKSPACE_ID |-> w]
                    : t \in {None, "", "tok"}, w \in {None, "", "42"}}
    /\ phase = "init"
    /\ lifespan_context = NoContext
    /\ registered = RegisteredAtImport
    /\ pending = NoCall
    /\ last = NoRun
    /\ http_requests = 0
    /\ startup_environ = environ
    /\ inflight = [i \in 1..MaxConcurrent |-> NotCalled]


\* app_lifespan up to its yield: get_api_client() returns the token, which
\* becomes the lifespan context, or raises and the server does not start.
Startup ==
    /\ phase = "init"
    /\ LET twist_token == get_api_client(environ)
       IN  IF twist_token.raised
           THEN /\ phase' = "failed"
                /\ lifespan_context' = lifespan_context
           ELSE /\ phase' = "running"
                /\ lifespan_context' = [twist_token |-> twist_token.value]
    /\ startup_environ' = environ
    /\ UNCHANGED <<environ, registered, pending, last, http_requests, inflight>>

\* app_lifespan after its yield: the finally clause logs the shutdown.
Shutdown ==
    /\ phase = "running"
    /\ pending = NoCall
    /\ last = NoRun
    /\ phase' = "stopped"
    /\ UNCHANGED <<environ, lifespan_context, registered, pending, last, http_requests,
                 startup_environ, inflight>>

\* A handler of the catalog is called with the request context of the
\* running server and arguments a: by the host when the handler is
\* registered as a tool, and otherwise only by code that imports it.
Invoke ==
    /\ phase = "running"
    /\ pending = NoCall
    /\ last = NoRun
    /\ http_requests < MaxHttp
    /\ \E t \in Catalog : \E a \in ArgSets(t) :
          pending' = [tool |-> t, args |-> a,
                      via |-> IF t \in registered THEN "host" ELSE "import"]
    /\ UNCHANGED <<environ, phase, lifespan_context, registered, last, http_requests,
                 startup_environ, inflight>>

\* The state after a handler ran: r is what it did and returned, net what the
\* network did with the HTTP request, if the handler issued one.
Ran(t, r, net) ==
    /\ last' = [tool |-> t, args |-> pending.args, calls |-> r.calls,
                sent |-> r.sent,
                net |-> IF r.sent = <<>> THEN NoNet ELSE net,
                result |-> r.result]
    /\ http_requests' = http_requests + Len(r.sent)
    /\ pending' = NoCall
    /\ UNCHANGED <<environ, phase, lifespan_context, registered,
                 startup_environ, inflight>>

\* One action per handler: the handler runs from its first line to its
\* return.

Handle_twist_inbox_get ==
    /\ pending.tool = "twist_inbox_get"
    /\ \E net \in Outcomes :
          Ran("twist_inbox_get",
              twist_inbox_get(lifespan_context, pending.args, environ, net), net)

Handle_twist_inbox_archive_all ==
    /\ pending.tool = "twist_inbox_archive_all"
    /\ \E net \in Outcomes :
          Ran("twist_inbox_archive_all",
              twist_inbox_archive_all(lifespan_context, pending.args, environ, net), net)

Handle_twist_inbox_archive ==
    /\ pending.tool = "twist_inbox_archive"
    /\ \E net \in Outcomes :
          Ran("twist_inbox_archive",
              twist_inbox_archive(lifespan_context, pending.args, environ, net), net)

Handle_twist_inbox_unarchive ==
    /\ pending.tool = "twist_inbox_unarchive"
    /\ \E net \in Outcomes :
          Ran("twist_inbox_unarchive",
              twist_inbox_unarchive(lifespan_context, pending.args, environ, net), net)

Handle_twist_inbox_mark_all_read ==
    /\ pending.tool = "twist_inbox_mark_all_read"
    /\ \E net \in Outcomes :
          Ran("twist_inbox_mark_all_read",
              twist_inbox_mark_all_read(lifespan_context, pending.args, environ, net), net)

Handle_twist_inbox_get_count ==
    /\ pending.tool = "twist_inbox_get_count"
    /\ \E net \in Outcomes :
          Ran("twist_inbox_get_count",
              twist_inbox_get_count(lifespan_context, pending.args, environ, net), net)

Handle_twist_threads_getone ==
    /\ pending.tool = "twist_threads_getone"
    /\ \E net \in Outcomes :
          Ran("twist_threads_getone",
              twist_threads_getone(lifespan_context, pending.args, environ, net), net)

Handle_twist_threads_get ==
    /\ pending.tool = "twist_threads_get"
    /\ \E net \in Outcomes :
          Ran("twist_threads_get",
              twist_threads_get(lifespan_context, pending.args, environ, net), net)

Handle_twist_threads_add ==
    /\ pending.tool = "twist_threads_add"
    /\ \E net \in Outcomes :
          Ran("twist_threads_add",
              twist_threads_add(lifespan_context, pending.args, environ, net), net)

Handle_twist_threads_update ==
    /\ pending.tool = "twist_threads_update"
    /\ \E net \in Outcomes :
          Ran("twist_threads_update",
              twist_threads_update(lifespan_context, pending.args, environ, net), net)

Handle_twist_threads_remove ==
    /\ pending.tool = "twist_threads_remove"
    /\ \E net \in Outcomes :
          Ran("twist_threads_remove",
              twist_threads_remove(lifespan_context, pending.args, environ, net), net)

Handle_twist_threads_star ==
    /\ pending.tool = "twist_threads_star"
    /\ \E net \in Outcomes :
          Ran("twist_threads_star",
              twist_threads_star(lifespan_context, pending.args, environ, net), net)

Handle_twist_threads_unstar ==
    /\ pending.tool = "twist_threads_unstar"
    /\ \E net \in Outcomes :
          Ran("twist_threads_unstar",
              twist_threads_unstar(lifespan_context, pending.args, environ, net), net)

Handle_twist_threads_pin ==
    /\ pending.tool = "twist_threads_pin"
    /\ \E net \in Outcomes :
          Ran("twist_threads_pin",
              twist_threads_pin(lifespan_context, pending.args, environ, net), net)

Handle_twist_threads_unpin ==
    /\ pending.tool = "twist_threads_unpin"
    /\ \E net \in Outcomes :
          Ran("twist_threads_unpin",
              twist_threads_unpin(lifespan_context, pending.args, environ, net), net)

Handle_twist_threads_move_to_channel ==
    /\ pending.tool = "twist_threads_move_to_channel"
    /\ \E net \in Outcomes :
          Ran("twist_threads_move_to_channel",
              twist_threads_move_to_channel(lifespan_context, pending.args, environ, net), net)

Handle_twist_threads_get_unread ==
    /\ pending.tool = "twist_threads_get_unread"
    /\ \E net \in Outcomes :
          Ran("twist_threads_get_unread",
              twist_threads_get_unread(lifespan_context, pending.args, environ, net), net)

Handle_twist_threads_mark_read ==
    /\ pending.tool = "twist_threads_mark_read"
    /\ \E net \in Outcomes :
          Ran("twist_threads_mark_read",
              twist_threads_mark_read(lifespan_context, pending.args, environ, net), net)

Handle_twist_threads_mark_unread ==
    /\ pending.tool = "twist_threads_mark_unread"
    /\ \E net \in Outcomes :
          Ran("twist_threads_mark_unread",
              twist_threads_mark_unread(lifespan_context, pending.args, environ, net), net)

Handle_twist_threads_mark_unread_for_others ==
    /\ pending.tool = "twist_threads_mark_unread_for_others"
    /\ \E net \in Outcomes :
          Ran("twist_threads_mark_unread_for_others",
              twist_threads_mark_unread_for_others(lifespan_context, pending.args, environ, net), net)

Handle_twist_threads_mark_all_read ==
    /\ pending.tool = "twist_threads_mark_all_read"
    /\ \E net \in Outcomes :
          Ran("twist_threads_mark_all_read",
              twist_threads_mark_all_read(lifespan_context, pending.args, environ, net), net)

Handle_twist_threads_clear_unread ==
    /\ pending.tool = "twist_threads_clear_unread"
    /\ \E net \in Outcomes :
          Ran("twist_threads_clear_unread",
              twist_threads_clear_unread(lifespan_context, pending.args, environ, net), net)

Handle_twist_threads_mute ==
    /\ pending.tool = "twist_threads_mute"
    /\ \E net \in Outcomes :
          Ran("twist_threads_mute",
              twist_threads_mute(lifespan_context, pending.args, environ, net), net)

Handle_twist_threads_unmute ==
    /\ pending.tool = "twist_threads_unmute"
    /\ \E net \in Outcomes :
          Ran("twist_threads_unmute",
              twist_threads_unmute(lifespan_context, pending.args, environ, net), net)

Methods == {"GET", "POST", "PUT", "DELETE"}

\* twist_request called on its own, with any method and with or without a
\* token.
DirectRequest ==
    /\ phase = "running"
    /\ pending = NoCall
    /\ last = NoRun
    /\ http_requests < MaxHttp
    /\ \E params \in {NoParams, [id |-> "7"]}, token \in {None, "tok2"},
          method \in Methods, net \in Outcomes :
          LET g == twist_request("threads/getone", params, token, method, environ, net)
          IN  /\ last' = [tool |-> "twist_request",
                          args |-> [endpoint |-> "threads/getone", params |-> params,
                                    token |-> token, method |-> method],
                          calls |-> <<GatewayCall("threads/getone", params, token, method)>>,
                          sent |-> g.sent,
                          net |-> IF g.sent = <<>> THEN NoNet ELSE net,
                          result |-> g.ret]
              /\ http_requests' = http_requests + Len(g.sent)
    /\ UNCHANGED <<environ, phase, lifespan_context, registered, pending,
                 startup_environ, inflight>>

\* The caller takes the returned value; nothing of the call is kept.
Deliver ==
    /\ last # NoRun
    /\ last' = NoRun
    /\ UNCHANGED <<environ, phase, lifespan_context, registered, pending, http_requests,
                 startup_environ, inflight>>

Next ==
    \/ Startup
    \/ Shutdown
    \/ Invoke
    \/ Handle_twist_inbox_get
    \/ Handle_twist_inbox_archive_all
    \/ Handle_twist_inbox_archive
    \/ Handle_twist_inbox_unarchive
    \/ Handle_twist_inbox_mark_all_read
    \/ Handle_twist_inbox_get_count
    \/ Handle_twist_threads_getone
    \/ Handle_twist_threads_get
    \/ Handle_twist_threads_add
    \/ Handle_twist_threads_update
    \/ Handle_twist_threads_remove
    \/ Handle_twist_threads_star
    \/ Handle_twist_threads_unstar
    \/ Handle_twist_threads_pin
    \/ Handle_twist_threads_unpin
    \/ Handle_twist_threads_move_to_channel
    \/ Handle_twist_threads_get_unread
    \/ Handle_twist_threads_mark_read
    \/ Handle_twist_threads_mark_unread
    \/ Handle_twist_threads_mark_unread_for_others
    \/ Handle_twist_threads_mark_all_read
    \/ Handle_twist_threads_clear_unread
    \/ Handle_twist_threads_mute
    \/ Handle_twist_threads_unmute
    \/ DirectRequest
    \/ Deliver

Spec == Init /\ [][Next]_vars

-----------------------------------------------------------------------------
(* The environment changed under the running server *)

\* os.environ is process-wide and writable: between two invocations of the
\* running server, one of the two variables is removed or set to a new value.
EnvChange ==
    /\ phase = "running"
    /\ pending = NoCall
    /\ last = NoRun
    /\ \E name \in {"TWIST_API_TOKEN", "TWIST_WORKSPACE_ID"}, v \in {None, "tok9", "43"} :
          /\ name = "TWIST_API_TOKEN" => v \in {None, "tok9"}
          /\ name = "TWIST_WORKSPACE_ID" => v \in {None, "43"}
          /\ v # environ[name]
          /\ environ' = [environ EXCEPT ![name] = v]
    /\ UNCHANGED <<phase, lifespan_context, registered, pending, last, http_requests,
                 startup_environ, inflight>>

NextEnv == Next \/ EnvChange

SpecEnv == Init /\ [][NextEnv]_vars

-----------------------------------------------------------------------------
(* Invocations that overlap in time *)

\* The handler named t, called.
Handler(t, ctx, a, env, net) ==
    CASE t = "twist_inbox_get" -> twist_inbox_get(ctx, a, env, net)
      [] t = "twist_inbox_archive_all" -> twist_inbox_archive_all(ctx, a, env, net)
      [] t = "twist_inbox_archive" -> twist_inbox_archive(ctx, a, env, net)
      [] t = "twist_inbox_unarchive" -> twist_inbox_unarchive(ctx, a, env, net)
      [] t = "twist_inbox_mark_all_read" -> twist_inbox_mark_all_read(ctx, a, env, net)
      [] t = "twist_inbox_get_count" -> twist_inbox_get_count(ctx, a, env, net)
      [] t = "twist_threads_getone" -> twist_threads_getone(ctx, a, env, net)
      [] t = "twist_threads_get" -> twist_threads_get(ctx, a, env, net)
      [] t = "twist_threads_add" -> twist_threads_add(ctx, a, env, net)
      [] t = "twist_threads_update" -> twist_threads_update(ctx, a, env, net)
      [] t = "twist_threads_remove" -> twist_threads_remove(ctx, a, env, net)
      [] t = "twist_threads_star" -> twist_threads_star(ctx, a, env, net)
      [] t = "twist_threads_unstar" -> twist_threads_unstar(ctx, a, env, net)
      [] t = "twist_threads_pin" -> twist_threads_pin(ctx, a, env, net)
      [] t = "twist_threads_unpin" -> twist_threads_unpin(ctx, a, env, net)
      [] t = "twist_threads_move_to_channel" -> twist_threads_move_to_channel(ctx, a, env, net)
      [] t = "twist_threads_get_unread" -> twist_threads_get_unread(ctx, a, env, net)
      [] t = "twist_threads_mark_read" -> twist_threads_mark_read(ctx, a, env, net)
      [] t = "twist_threads_mark_unread" -> twist_threads_mark_unread(ctx, a, env, net)
      [] t = "twist_threads_mark_unread_for_others" -> twist_threads_mark_unread_for_others(ctx, a, env, net)
      [] t = "twist_threads_mark_all_read" -> twist_threads_mark_all_read(ctx, a, env, net)
      [] t = "twist_threads_clear_unread" -> twist_threads_clear_unread(ctx, a, env, net)
      [] t = "twist_threads_mute" -> twist_threads_mute(ctx, a, env, net)
      [] t = "twist_threads_unmute" -> twist_threads_unmute(ctx, a, env, net)

\* The tools and the network outcomes the overlapping invocations draw from.
ConcurrentTools ==
    {"twist_threads_mark_all_read", "twist_inbox_archive_all", "twist_threads_remove"}

ConcurrentOutcomes ==
    {[kind |-> "transport", status |-> 0, body |-> ""],
     [kind |-> "response", status |-> 200, body |-> "{\"id\": 1}"]}

\* What a handler has done when it reaches its twist_request call (or its
\* early return): token and workspace read, params built.  None of it
\* depends on what the network will answer.
UpToRequest(t, ctx, a, env) == Handler(t, ctx, a, env, NoNet)

shared_call(slots, i) ==
    LET built == {j \in DOMAIN slots : slots[j].calls # <<>>}
    IN  slots[CHOOSE j \in built : \A k \in built : k <= j].calls[1]

\* The endpoint, params, token and method invocation i passes to
\* twist_request: its own local variables.
own_call(slots, i) == slots[i].calls[1]

\* The host calls a tool while earlier invocations are still running.
ConcurrentCall(i) ==
    /\ phase = "running"
    /\ inflight[i].pc = "idle"
    /\ \A j \in 1..(i - 1) : inflight[j].pc # "idle"
    /\ \E t \in ConcurrentTools : \E a \in ArgSets(t) :
          inflight' = [inflight EXCEPT ![i] =
                          [NotCalled EXCEPT !.pc = "called", !.tool = t, !.args = a]]
    /\ UNCHANGED <<environ, phase, lifespan_context, registered, pending, last,
                 http_requests, startup_environ>>

\* Invocation i runs up to its twist_request call, or returns early.
ConcurrentBuild(i) ==
    /\ inflight[i].pc = "called"
    /\ LET r == UpToRequest(inflight[i].tool, lifespan_context, inflight[i].args, environ)
       IN  inflight' = [inflight EXCEPT ![i] =
                           IF r.calls = <<>>
                           THEN [@ EXCEPT !.pc = "done", !.result = r.result]
                           ELSE [@ EXCEPT !.pc = "built", !.calls = r.calls]]
    /\ UNCHANGED <<environ, phase, lifespan_context, registered, pending, last,
                 http_requests, startup_environ>>

\* Invocation i makes its gateway call, the network answers, and the handler
\* runs on to its return.
ConcurrentExchange(i) ==
    /\ inflight[i].pc = "built"
    /\ \E net \in ConcurrentOutcomes :
          LET c == own_call(inflight, i)
              g == twist_request(c.endpoint, c.params, c.token, c.method, environ, net)
              r == Handler(inflight[i].tool, lifespan_context, inflight[i].args,
                           environ, net)
          IN  /\ inflight' = [inflight EXCEPT ![i] =
                                 [@ EXCEPT !.pc = "done", !.calls = <<c>>,
                                           !.sent = g.sent, !.net = net,
                                           !.result = r.result]]
              /\ http_requests' = http_requests + Len(g.sent)
    /\ UNCHANGED <<environ, phase, lifespan_context, registered, pending, last,
                 startup_environ>>

NextConcurrent ==
    \/ Startup
    \/ \E i \in 1..MaxConcurrent : ConcurrentCall(i)
    \/ \E i \in 1..MaxConcurrent : ConcurrentBuild(i)
    \/ \E i \in 1..MaxConcurrent : ConcurrentExchange(i)

SpecConcurrent == Init /\ [][NextConcurrent]_vars

-----------------------------------------------------------------------------
(* Properties *)

\* The handler of a catalog tool has just run.
ToolRan == last.tool \in Catalog

\* The handler called the gateway (exactly once).
CalledGateway == Len(last.calls) = 1

\* The prefix of each tool's error string.
ErrorPrefix(t) ==
    CASE t = "twist_inbox_get" -> "Error getting inbox"
      [] t = "twist_inbox_archive_all" -> "Error archiving all inbox threads"
      [] t = "twist_inbox_archive" -> "Error archiving thread"
      [] t = "twist_inbox_unarchive" -> "Error unarchiving thread"
      [] t = "twist_inbox_mark_all_read" -> "Error marking all inbox threads as read"
      [] t = "twist_inbox_get_count" -> "Error getting inbox count"
      [] t = "twist_threads_getone" -> "Error getting thread"
      [] t = "twist_threads_get" -> "Error getting threads"
      [] t = "twist_threads_add" -> "Error adding thread"
      [] t = "twist_threads_update" -> "Error updating thread"
      [] t = "twist_threads_remove" -> "Error removing thread"
      [] t = "twist_threads_star" -> "Error starring thread"
      [] t = "twist_threads_unstar" -> "Error unstarring thread"
      [] t = "twist_threads_pin" -> "Error pinning thread"
      [] t = "twist_threads_unpin" -> "Error unpinning thread"
      [] t = "twist_threads_move_to_channel" -> "Error moving thread"
      [] t = "twist_threads_get_unread" -> "Error getting unread threads"
      [] t = "twist_threads_mark_read" -> "Error marking thread as read"
      [] t = "twist_threads_mark_unread" -> "Error marking thread as unread"
      [] t = "twist_threads_mark_unread_for_others" ->
            "Error marking thread as unread for others"
      [] t = "twist_threads_mark_all_read" -> "Error marking all threads as read"
      [] t = "twist_threads_clear_unread" -> "Error clearing unread threads"
      [] t = "twist_threads_mute" -> "Error muting thread"
      [] t = "twist_threads_unmute" -> "Error unmuting thread"

\* The JSON texts among the response bodies.
JsonTexts == {"null", "{}", "[]", "{\"id\": 1}", "[{\"id\": 1}]", "5"}

IsErrorStatus(status) == 400 <= status /\ status < 600

\* The HTTP exchange of the call that just ran failed: no connection, an
\* error status, or a body that is not JSON.
RequestFailed ==
    \/ last.net.kind = "transport"
    \/ /\ last.net.kind = "response"
       /\ IsErrorStatus(last.net.status) \/ last.net.body \notin JsonTexts

\* str(error) of the failures of an exchange
FailureMessages ==
    {"Connection aborted", "Expecting value: line 1 column 1 (char 0)"}
    \cup {ToString(st) \o " Client Error" : st \in Statuses}
    \cup {ToString(st) \o " Server Error" : st \in Statuses}

\* C1: whatever failure the request of a tool meets (no connection, an error
\* status, an undecodable body), the handler returns the string
\* "<the tool's error prefix>: <message>", and no handler ever lets an
\* exception out.
C1_FailureBecomesErrorString ==
    ToolRan =>
        /\ ~last.result.raised
        /\ (CalledGateway /\ RequestFailed) =>
               \E m \in FailureMessages :
                   last.result.value = ErrorPrefix(last.tool) \o ": " \o m

C1_Witness ==
    /\ last.tool = "twist_threads_remove"
    /\ last.args.id = "7"
    /\ last.net.kind = "transport"
    /\ last.result = Return("Error removing thread: Connection aborted")

\* What the parameter mapping of the gateway call holds for argument k.
KeyMatchesArgument(k) ==
    LET params == last.calls[1].params
    IN  /\ k \in DOMAIN params <=> last.args[k] # None
        /\ last.args[k] # None => params[k] = last.args[k]

\* C2 as stated: for every tool and every optional argument, the key is in the
\* parameter mapping iff the caller supplied the argument, with that value.
C2_Original ==
    (ToolRan /\ CalledGateway) =>
        \A k \in Optional(last.tool) : KeyMatchesArgument(k)

\* C2, amended: for every tool and every optional argument other than the
\* workspace_id of threads.mark_all_read, the key is in the parameter mapping
\* iff the caller supplied the argument, and then with exactly that value,
\* falsy or not.
C2_OptionalKeyIffSupplied ==
    (ToolRan /\ CalledGateway) =>
        \A k \in Optional(last.tool) :
            (last.tool = "twist_threads_mark_all_read" /\ k = "workspace_id")
            \/ KeyMatchesArgument(k)

C2_Witness ==
    /\ last.tool = "twist_threads_get"
    /\ CalledGateway
    /\ last.args.as_ids = "False"
    /\ last.args.limit = None
    /\ last.calls[1].params = [channel_id |-> last.args.channel_id, as_ids |-> "False"]

\* The workspace-scoped tools that have no argument naming the workspace.
WorkspaceScoped ==
    {"twist_inbox_get", "twist_inbox_archive_all", "twist_inbox_mark_all_read",
     "twist_inbox_get_count", "twist_threads_get_unread", "twist_threads_clear_unread"}

\* TWIST_WORKSPACE_ID is not set, or set to the empty string.
NoDefaultWorkspace == environ.TWIST_WORKSPACE_ID \in {None, ""}

\* C3: a workspace-scoped tool other than threads.mark_all_read, run with no
\* default workspace configured, returns the error string naming
\* TWIST_WORKSPACE_ID and calls the gateway zero times.
C3_MissingWorkspaceIsLocalError ==
    (last.tool \in WorkspaceScoped /\ NoDefaultWorkspace) =>
        /\ last.result =
               Return("Error: TWIST_WORKSPACE_ID environment variable is required")
        /\ last.calls = <<>>
        /\ last.sent = <<>>

C3_Witness ==
    /\ last.tool = "twist_threads_clear_unread"
    /\ environ.TWIST_WORKSPACE_ID = None
    /\ last.calls = <<>>
    /\ last.result =
           Return("Error: TWIST_WORKSPACE_ID environment variable is required")

\* threads.mark_all_read has just run.
MarkAllReadRan == last.tool = "twist_threads_mark_all_read"

\* the arguments the caller supplied, as a mapping
SuppliedArgs == [k \in {k \in DOMAIN last.args : last.args[k] # None} |-> last.args[k]]

\* C4 as stated: when the caller of threads.mark_all_read supplies channel_id
\* or workspace_id (any value), the one gateway call goes to
\* threads/mark_all_read with exactly the supplied arguments, whatever the
\* configured default workspace is.
C4_SuppliedTargetUsedExactly ==
    (MarkAllReadRan /\ SuppliedArgs # <<>>) =>
        /\ CalledGateway
        /\ last.calls[1].endpoint = "threads/mark_all_read"
        /\ last.calls[1].params = SuppliedArgs

\* C5: threads.mark_all_read called with neither argument makes exactly one
\* gateway call, to threads/mark_all_read with {workspace_id: W}, when a
\* default workspace W is configured; with none configured it returns a local
\* error string and makes no gateway call.
C5_MarkAllReadFallsBackToDefault ==
    (MarkAllReadRan /\ SuppliedArgs = <<>>) =>
        IF NoDefaultWorkspace
        THEN /\ last.calls = <<>>
             /\ last.sent = <<>>
             /\ last.result =
                    Return("Error: Either workspace_id or channel_id is required")
        ELSE /\ CalledGateway
             /\ last.calls[1].endpoint = "threads/mark_all_read"
             /\ last.calls[1].method = "POST"
             /\ last.calls[1].params = [workspace_id |-> environ.TWIST_WORKSPACE_ID]

C5_Witness ==
    /\ MarkAllReadRan
    /\ SuppliedArgs = <<>>
    /\ environ.TWIST_WORKSPACE_ID = "42"
    /\ last.calls[1].params = [workspace_id |-> "42"]
    /\ last.result = Return("Successfully marked all threads in workspace ID: 42 as read")

\* A call of the gateway has just run, made by a handler or on its own.
GatewayRan == last.tool # "" /\ CalledGateway

\* C6: a gateway call with verb GET or POST issues exactly one HTTP request,
\* whether the exchange succeeds or fails (no connection, error status,
\* undecodable body), and a tool invocation issues at most one.
C6_OneRequestPerCall ==
    /\ (GatewayRan /\ last.calls[1].method \in {"GET", "POST"}) =>
           /\ Len(last.sent) = 1
           /\ last.sent[1].verb = last.calls[1].method
    /\ ToolRan => Len(last.sent) <= 1

C6_Witness ==
    /\ last.tool = "twist_inbox_archive"
    /\ RequestFailed
    /\ last.net.status = 500
    /\ Len(last.sent) = 1
    /\ last.result = Return("Error archiving thread: 500 Server Error")

\* C7: a gateway call with a verb other than GET and POST raises the
\* "unsupported method" error and issues no HTTP request.
C7_UnsupportedMethodBeforeIO ==
    (last.tool = "twist_request" /\ last.args.method \notin {"GET", "POST"}) =>
        /\ last.result.raised
        /\ last.result.type = "ValueError"
        /\ last.result.msg = "Unsupported HTTP method: " \o last.args.method
        /\ last.sent = <<>>

C7_Witness ==
    /\ last.tool = "twist_request"
    /\ last.args.method = "PUT"
    /\ last.result.raised
    /\ last.sent = <<>>
    /\ http_requests = 0

\* A gateway call made on its own got an HTTP response.
GatewayGotResponse == last.tool = "twist_request" /\ last.net.kind = "response"

HttpStatusError == last.result.raised /\ last.result.type = "HTTPError"

\* C8 as stated: for every response whose status is not 2xx (1xx and 3xx
\* included), the gateway call fails with an HTTP-status error.
C8_Original ==
    (GatewayGotResponse /\ ~(200 <= last.net.status /\ last.net.status < 300)) =>
        HttpStatusError

\* C8, amended: for every response whose status is 4xx or 5xx the gateway call
\* fails with an HTTP-status error and returns no decoded body; a response
\* with any other status (2xx, and a 1xx or 3xx that reaches the caller) is
\* no HTTP-status error, and the call returns normally when the body is JSON.
C8_ErrorStatusFails ==
    GatewayGotResponse =>
        IF IsErrorStatus(last.net.status)
        THEN HttpStatusError
        ELSE /\ ~HttpStatusError
             /\ last.net.body \in JsonTexts => ~last.result.raised

C8_Witness ==
    /\ GatewayGotResponse
    /\ last.net.status = 404
    /\ last.net.body = "{\"id\": 1}"
    /\ HttpStatusError
    /\ last.result.msg = "404 Client Error"

\* A handler has been called, or has run.
Invoked == pending # NoCall \/ last # NoRun

\* C9: with TWIST_API_TOKEN absent or empty the server never runs, no handler
\* is ever invoked and no HTTP request is ever issued; and a handler is only
\* ever invoked with a non-empty token in its context.
C9_NoCredentialNoInvocation ==
    /\ environ.TWIST_API_TOKEN \in {None, ""} =>
           /\ phase \in {"init", "failed"}
           /\ ~Invoked
           /\ http_requests = 0
    /\ Invoked =>
           /\ lifespan_context.twist_token \notin {None, ""}
           /\ lifespan_context.twist_token = environ.TWIST_API_TOKEN

C9_Witness ==
    /\ environ.TWIST_API_TOKEN = ""
    /\ phase = "failed"
    /\ lifespan_context = NoContext

\* C10: once the server runs, the tools registered with the host are exactly
\* the catalog (six inbox tools, eighteen thread tools), so that the host can
\* invoke every one of them.
C10_RegisteredIsCatalog ==
    phase = "running" => registered = Catalog

\* The gateway call of the handler that just ran succeeded: a response with
\* a 2xx status and a body that is JSON.
GatewaySucceeded ==
    /\ CalledGateway
    /\ last.net.kind = "response"
    /\ 200 <= last.net.status /\ last.net.status < 300
    /\ last.net.body \in JsonTexts

\* The decoded response of that call.
Decoded == json(last.net.body).value

GetStyleTools ==
    {"twist_inbox_get", "twist_threads_get", "twist_threads_get_unread",
     "twist_inbox_get_count"}

\* The fixed string each get-style tool returns for an empty result.
EmptyResultString(t) ==
    CASE t = "twist_inbox_get" -> "No inbox threads found"
      [] t = "twist_threads_get" -> "No threads found"
      [] t = "twist_threads_get_unread" -> "No unread threads found"
      [] t = "twist_inbox_get_count" -> "Failed to get inbox count"

\* C11: when its gateway call succeeds, a get-style tool (inbox.get,
\* threads.get, threads.get_unread, inbox.get_count) returns the decoded
\* response unchanged if that is truthy, and its fixed string if and only if
\* the decoded response is falsy.
C11_GetReturnsDataOrFixedString ==
    (last.tool \in GetStyleTools /\ GatewaySucceeded) =>
        IF Decoded \in Falsy
        THEN last.result = Return(EmptyResultString(last.tool))
        ELSE last.result = Return(Decoded)

\* The action-style tools.
ActionStyleTools ==
    {"twist_inbox_archive", "twist_inbox_unarchive", "twist_inbox_archive_all",
     "twist_inbox_mark_all_read", "twist_threads_remove", "twist_threads_star",
     "twist_threads_unstar", "twist_threads_pin", "twist_threads_unpin",
     "twist_threads_move_to_channel", "twist_threads_mark_read",
     "twist_threads_mark_unread", "twist_threads_mark_unread_for_others",
     "twist_threads_mark_all_read", "twist_threads_clear_unread",
     "twist_threads_mute", "twist_threads_unmute"}

\* The action-style tools that hand back the gateway's response instead.
RawActionTools == {"twist_threads_mute", "twist_threads_unmute"}

\* The success string of an action-style tool, from its arguments a and the
\* parameter mapping p it sent.
SuccessString(t, a, p) ==
    CASE t = "twist_inbox_archive" -> "Successfully archived thread with ID: " \o a.id
      [] t = "twist_inbox_unarchive" -> "Successfully unarchived thread with ID: " \o a.id
      [] t = "twist_inbox_archive_all" -> "Successfully archived all inbox threads"
      [] t = "twist_inbox_mark_all_read" -> "Successfully marked all inbox threads as read"
      [] t = "twist_threads_remove" -> "Successfully removed thread with ID: " \o a.id
      [] t = "twist_threads_star" -> "Successfully starred thread with ID: " \o a.id
      [] t = "twist_threads_unstar" -> "Successfully unstarred thread with ID: " \o a.id
      [] t = "twist_threads_pin" -> "Successfully pinned thread with ID: " \o a.id
      [] t = "twist_threads_unpin" -> "Successfully unpinned thread with ID: " \o a.id
      [] t = "twist_threads_move_to_channel" ->
            "Successfully moved thread with ID: " \o a.id \o " to channel: " \o a.to_channel
      [] t = "twist_threads_mark_read" ->
            "Successfully marked thread with ID: " \o a.id
            \o " as read up to comment index: " \o a.obj_index
      [] t = "twist_threads_mark_unread" ->
            "Successfully marked thread with ID: " \o a.id
            \o " as unread from comment index: " \o a.obj_index
      [] t = "twist_threads_mark_unread_for_others" ->
            "Successfully marked thread with ID: " \o a.id
            \o " as unread for others from comment index: " \o a.obj_index
      [] t = "twist_threads_mark_all_read" ->
            IF "channel_id" \in DOMAIN p
            THEN "Successfully marked all threads in channel ID: " \o p.channel_id
                 \o " as read"
            ELSE "Successfully marked all threads in workspace ID: " \o p.workspace_id
                 \o " as read"
      [] t = "twist_threads_clear_unread" -> "Successfully cleared unread threads"
      [] t = "twist_threads_mute" -> "Successfully muted thread with ID: " \o a.id
      [] t = "twist_threads_unmute" -> "Successfully unmuted thread with ID: " \o a.id

\* C12 as stated: every action-style tool, mute and unmute included, returns
\* its fixed success string when the gateway call succeeds, whatever the
\* payload.
C12_Original ==
    (last.tool \in ActionStyleTools /\ GatewaySucceeded) =>
        last.result = Return(SuccessString(last.tool, last.args, last.calls[1].params))

\* C12, amended: every action-style tool other than threads.mute and
\* threads.unmute returns its fixed success string, embedding the id(s), when
\* the gateway call succeeds, whatever payload the gateway returned;
\* threads.mute and threads.unmute return the decoded response itself.
C12_ActionReturnsSuccessString ==
    (last.tool \in ActionStyleTools /\ GatewaySucceeded) =>
        IF last.tool \in RawActionTools
        THEN last.result = Return(Decoded)
        ELSE last.result =
                 Return(SuccessString(last.tool, last.args, last.calls[1].params))

C12_Witness ==
    /\ last.tool = "twist_threads_move_to_channel"
    /\ GatewaySucceeded
    /\ last.net.body = "{\"id\": 1}"
    /\ last.args = [id |-> "7", to_channel |-> "0"]
    /\ last.result = Return("Successfully moved thread with ID: 7 to channel: 0")

\* C13: inbox.archive_all with a default workspace W configured makes its one
\* gateway call with POST to inbox/archive_all, the parameters being exactly
\* {workspace_id: W, older_than_ts: T} when older_than_ts=T is supplied and
\* exactly {workspace_id: W} when it is not.
C13_ArchiveAllParameters ==
    (last.tool = "twist_inbox_archive_all" /\ ~NoDefaultWorkspace) =>
        /\ CalledGateway
        /\ last.calls[1].endpoint = "inbox/archive_all"
        /\ last.calls[1].method = "POST"
        /\ last.calls[1].params =
               IF last.args.older_than_ts = None
               THEN [workspace_id |-> environ.TWIST_WORKSPACE_ID]
               ELSE [workspace_id |-> environ.TWIST_WORKSPACE_ID,
                     older_than_ts |-> last.args.older_than_ts]
        /\ Len(last.sent) = 1
        /\ last.sent[1].verb = "POST"
        /\ last.sent[1].url = "https://api.twist.com/api/v3/inbox/archive_all"
        /\ last.sent[1].data = last.calls[1].params

C13_Witness ==
    /\ last.tool = "twist_inbox_archive_all"
    /\ CalledGateway
    /\ last.args.older_than_ts = "7"
    /\ last.calls[1].params = [workspace_id |-> "42", older_than_ts |-> "7"]
    /\ last.sent[1].verb = "POST"

\* str(error) of the exceptions a handler's own statements raise
HandlerMessages ==
    {"object of type 'int' has no len()", "'workspace_id'"}
    \cup {"'" \o ty \o "' object has no attribute 'get'" : ty \in {"NoneType", "list", "int"}}

\* v is an error string of tool t.
IsErrorString(t, v) ==
    \E m \in FailureMessages \cup HandlerMessages : v = ErrorPrefix(t) \o ": " \o m

\* C16: whenever the one HTTP request of a tool invocation completed with a
\* success status and a decodable JSON body, the tool returns its success
\* value and never an error string; threads.add then returns the decoded
\* response, whatever JSON value that is.
C16_SuccessIsNeverAnErrorString ==
    (ToolRan /\ GatewaySucceeded) =>
        /\ ~last.result.raised
        /\ ~IsErrorString(last.tool, last.result.value)
        /\ last.tool = "twist_threads_add" => last.result = Return(Decoded)

\* The workspace-scoped handler that just ran fell back to the default
\* workspace: it has no workspace argument, or (threads.mark_all_read) was
\* given neither argument.
UsedDefaultWorkspace ==
    \/ last.tool \in WorkspaceScoped
    \/ MarkAllReadRan /\ SuppliedArgs = <<>>

\* C15: the credential and the default workspace are resolved once, at
\* startup: every later invocation sends the token the environment held at
\* startup, and a tool that falls back to the default workspace sends the
\* workspace the environment held at startup, or reports it missing if it was
\* missing then, whatever the environment holds at the time of the call.
C15_ConfigurationResolvedOnce ==
    ToolRan =>
        /\ CalledGateway => last.calls[1].token = startup_environ.TWIST_API_TOKEN
        /\ UsedDefaultWorkspace =>
               IF startup_environ.TWIST_WORKSPACE_ID \in {None, ""}
               THEN last.calls = <<>>
               ELSE /\ CalledGateway
                    /\ last.calls[1].params.workspace_id =
                           startup_environ.TWIST_WORKSPACE_ID

====
